---------------------------- MODULE Spec2Model ----------------------------
(***************************************************************************)
(* Model of the crop price forecasting pipeline of src/utils/predict.py    *)
(* and of the two HTTP handlers of src/app.py that drive it.               *)
(*                                                                         *)
(* Numbers.  Prices are Python floats in the source.  They are modelled    *)
(* as exact rationals <<n, d>> (d > 0, lowest terms); NaN is <<0, 0>>.     *)
(* Dates are day ordinals, ordinal 0 being 2023-01-01.                     *)
(***************************************************************************)
EXTENDS Integers, Sequences, FiniteSets, TLC

(***************************************************************************)
(* Bounds of the model.                                                    *)
(***************************************************************************)
\* largest number of raw observations of the (Potato, Punjab) pair
MaxObs == 3
\* largest horizon for which the forecast loop is run
MaxDays == 3

(***************************************************************************)
(* Program constants.                                                      *)
(***************************************************************************)
\* ts.iloc[-60:] in forecast_prices
WINDOW == 60
\* get_recent_ts(..., days=60)
RECENT_DAYS == 60
\* "if days < 1 or days > 30" in the /api/forecast handler
MAX_HORIZON == 30

(***************************************************************************)
(* Rational arithmetic (the float arithmetic of the source).               *)
(***************************************************************************)
NaN == <<0, 0>>

IsNaN(x) == x[2] = 0

Abs(n) == IF n < 0 THEN -n ELSE n

RECURSIVE GCD(_, _)
GCD(a, b) == IF b = 0 THEN a ELSE GCD(b, a % b)

LCM(a, b) == (a \div GCD(a, b)) * b

\* the rational n/d in lowest terms, d > 0
R(n, d) ==
    LET g == GCD(Abs(n), d)
    IN  <<n \div g, d \div g>>

RInt(n) == <<n, 1>>

RAdd(a, b) ==
    LET l == LCM(a[2], b[2])
    IN  R(a[1] * (l \div a[2]) + b[1] * (l \div b[2]), l)

RNeg(a) == <<-a[1], a[2]>>

RSub(a, b) == RAdd(a, RNeg(b))

RMul(a, b) ==
    LET g1 == GCD(Abs(a[1]), b[2])
        g2 == GCD(Abs(b[1]), a[2])
    IN  <<(a[1] \div g1) * (b[1] \div g2), (a[2] \div g2) * (b[2] \div g1)>>

\* a / b for b # 0
RDiv(a, b) ==
    IF b[1] > 0 THEN RMul(a, <<b[2], b[1]>>)
    ELSE RMul(a, <<-b[2], -b[1]>>)

RLess(a, b) == a[1] * b[2] < b[1] * a[2]

\* Python's round(x, digits) for digits = 2: the nearest multiple of 1/100,
\* a tie going to the even one.
Round2(x) ==
    LET num == x[1] * 100
        q   == num \div x[2]
        r2  == 2 * (num % x[2])
        c   == IF r2 < x[2] THEN q
               ELSE IF r2 > x[2] THEN q + 1
               ELSE IF q % 2 = 0 THEN q ELSE q + 1
    IN  R(c, 100)

\* the least common denominator of s[lo..hi]
RECURSIVE LcmRange(_, _, _)
LcmRange(s, lo, hi) ==
    IF lo > hi THEN 1 ELSE LCM(s[lo][2], LcmRange(s, lo + 1, hi))

RECURSIVE NumRange(_, _, _, _)
NumRange(s, lo, hi, l) ==
    IF lo > hi THEN 0
    ELSE s[lo][1] * (l \div s[lo][2]) + NumRange(s, lo + 1, hi, l)

\* s[lo] + ... + s[hi]
RSum(s, lo, hi) ==
    LET l == LcmRange(s, lo, hi)
    IN  R(NumRange(s, lo, hi, l), l)

RMean(s, lo, hi) == RDiv(RSum(s, lo, hi), RInt(hi - lo + 1))

\* the sequence f with every element computed once
Mat(f) == <<>> \o f

(***************************************************************************)
(* Calendar fields of a date (DatetimeIndex.day, .month, .dayofweek and    *)
(* .isocalendar().week), for the ordinals of 2023.                         *)
(***************************************************************************)
MonthLen == <<31, 28, 31, 30, 31, 30, 31, 31, 30, 31, 30, 31>>

RECURSIVE MonthFrom(_, _)
MonthFrom(d, m) ==
    IF d < MonthLen[m] THEN <<m, d + 1>> ELSE MonthFrom(d - MonthLen[m], m + 1)

\* <<month, day of month>> of ordinal d
MonthDay(d) == MonthFrom(d, 1)

\* Monday = 0; 2023-01-01 is a Sunday
DayOfWeek(d) == (d + 6) % 7

\* ISO week; 2023-01-01 belongs to week 52 of 2022
WeekOfYear(d) == IF d = 0 THEN 52 ELSE ((d - 1) \div 7) + 1

(***************************************************************************)
(* make_daily_ts: filter, sort, daily resample with mean, interpolation    *)
(* in time, forward and backward fill.                                     *)
(***************************************************************************)
\* df[(df['Commodity'] == crop) & (df['STATE'] == state)][['Date', 'Price']].copy()
FilterRows(d, crop, state) ==
    LET sel == SelectSeq(d, LAMBDA r : r.Commodity = crop /\ r.State = state)
    IN  Mat([k \in 1..Len(sel) |-> [Date |-> sel[k].Date, Price |-> sel[k].Price]])

\* the row r put after the last row of the sorted s whose Date is <= r.Date
RECURSIVE InsertByDate(_, _)
InsertByDate(s, r) ==
    IF s = <<>> THEN <<r>>
    ELSE IF s[Len(s)].Date <= r.Date THEN Append(s, r)
    ELSE Append(InsertByDate(SubSeq(s, 1, Len(s) - 1), r), s[Len(s)])

\* ts.sort_values('Date')
RECURSIVE SortByDate(_)
SortByDate(s) ==
    IF s = <<>> THEN <<>>
    ELSE InsertByDate(SortByDate(SubSeq(s, 1, Len(s) - 1)), s[Len(s)])

\* the mean of one day's bin, NaN for an empty bin
BinMean(s, day) ==
    LET bin == SelectSeq(s, LAMBDA r : r.Date = day)
        col == Mat([k \in 1..Len(bin) |-> bin[k].Price])
    IN  IF bin = <<>> THEN NaN ELSE RMean(col, 1, Len(col))

\* a resample that keeps only the days that have observations
RECURSIVE ResampleObservedOnly(_)
ResampleObservedOnly(s) ==
    IF s = <<>> THEN <<>>
    ELSE LET d    == s[Len(s)].Date
             rest == SelectSeq(s, LAMBDA r : r.Date # d)
         IN  Append(ResampleObservedOnly(rest), [Date |-> d, Price |-> BinMean(s, d)])

\* ts.resample('D').mean() of a non-empty frame sorted by Date: one row per
\* calendar day from the first to the last date
ResampleDailyMean(s) ==
    LET first == s[1].Date
        last  == s[Len(s)].Date
    IN  Mat([k \in 1..(last - first + 1) |->
                [Date |-> first + k - 1, Price |-> BinMean(s, first + k - 1)]])

\* index of the nearest row before i with a price, 0 when there is none
RECURSIVE PrevValid(_, _)
PrevValid(s, i) ==
    IF i <= 1 THEN 0
    ELSE IF ~IsNaN(s[i - 1].Price) THEN i - 1 ELSE PrevValid(s, i - 1)

\* index of the nearest row after i with a price, 0 when there is none
RECURSIVE NextValid(_, _)
NextValid(s, i) ==
    IF i >= Len(s) THEN 0
    ELSE IF ~IsNaN(s[i + 1].Price) THEN i + 1 ELSE NextValid(s, i + 1)

\* a fill that carries the earlier neighbour's price instead of interpolating
InterpCarry(s, a, b, i) == s[a].Price

\* the value interpolate(method='time') gives row i between its neighbours
\* a and b: slope * (x - xa) + ya on the index values
InterpAt(s, a, b, i) ==
    LET slope == RDiv(RSub(s[b].Price, s[a].Price), RInt(s[b].Date - s[a].Date))
    IN  RAdd(RMul(slope, RInt(s[i].Date - s[a].Date)), s[a].Price)

\* Series.interpolate(method='time'): gaps between two known prices are
\* filled linearly in time, a trailing gap carries the last known price, a
\* leading gap stays NaN
InterpolateTime(s) ==
    Mat([i \in 1..Len(s) |->
        IF ~IsNaN(s[i].Price) THEN s[i]
        ELSE LET a == PrevValid(s, i)
                 b == NextValid(s, i)
             IN  IF a = 0 THEN s[i]
                 ELSE IF b = 0 THEN [Date |-> s[i].Date, Price |-> s[a].Price]
                 ELSE [Date |-> s[i].Date, Price |-> InterpAt(s, a, b, i)]])

\* Series.ffill()
Ffill(s) ==
    Mat([i \in 1..Len(s) |->
        IF ~IsNaN(s[i].Price) \/ PrevValid(s, i) = 0 THEN s[i]
        ELSE [Date |-> s[i].Date, Price |-> s[PrevValid(s, i)].Price]])

\* Series.bfill()
Bfill(s) ==
    Mat([i \in 1..Len(s) |->
        IF ~IsNaN(s[i].Price) \/ NextValid(s, i) = 0 THEN s[i]
        ELSE [Date |-> s[i].Date, Price |-> s[NextValid(s, i)].Price]])

\* make_daily_ts after its emptiness check
DailyOf(rows) == Bfill(Ffill(InterpolateTime(ResampleDailyMean(SortByDate(rows)))))

\* make_daily_ts(df, crop, state)
make_daily_ts(d, crop, state) ==
    LET rows == FilterRows(d, crop, state)
    IN  IF rows = <<>> THEN [ok |-> FALSE, exc |-> "ValueError", ts |-> <<>>]
        ELSE [ok |-> TRUE, exc |-> "", ts |-> DailyOf(rows)]

(***************************************************************************)
(* make_features: calendar, lag and rolling columns, then dropna.          *)
(***************************************************************************)
PriceCol(s) == Mat([i \in 1..Len(s) |-> s[i].Price])

RECURSIVE AnyNaN(_, _, _)
AnyNaN(col, lo, hi) ==
    IF lo > hi THEN FALSE ELSE IsNaN(col[lo]) \/ AnyNaN(col, lo + 1, hi)

\* Series.shift(lag) at row i
Shift(col, lag, i) == IF i > lag THEN col[i - lag] ELSE NaN

\* Series.rolling(w).mean() at row i (min_periods = w)
RollingMean(col, w, i) ==
    IF i < w \/ AnyNaN(col, i - w + 1, i) THEN NaN
    ELSE RMean(col, i - w + 1, i)

\* the sample variance (ddof = 1) of col[lo..hi]
Variance(col, lo, hi) ==
    LET m  == RMean(col, lo, hi)
        sq == Mat([k \in 1..(hi - lo + 1) |->
                     RMul(RSub(col[lo + k - 1], m), RSub(col[lo + k - 1], m))])
    IN  RDiv(RSum(sq, 1, hi - lo + 1), RInt(hi - lo))

\* Series.rolling(w).std() at row i, kept as its square: the square root of a
\* rational need not be rational
RollingStd(col, w, i) ==
    IF i < w \/ AnyNaN(col, i - w + 1, i) THEN NaN
    ELSE Variance(col, i - w + 1, i)

\* the columns of df_feat before dropna
FeatureRows(s) ==
    LET col == PriceCol(s)
    IN  Mat([i \in 1..Len(s) |->
            [Date       |-> s[i].Date,
             Price      |-> s[i].Price,
             day        |-> MonthDay(s[i].Date)[2],
             month      |-> MonthDay(s[i].Date)[1],
             dayofweek  |-> DayOfWeek(s[i].Date),
             weekofyear |-> WeekOfYear(s[i].Date),
             lag_1      |-> Shift(col, 1, i),
             lag_7      |-> Shift(col, 7, i),
             lag_14     |-> Shift(col, 14, i),
             lag_30     |-> Shift(col, 30, i),
             ma_7       |-> RollingMean(col, 7, i),
             ma_14      |-> RollingMean(col, 14, i),
             ma_30      |-> RollingMean(col, 30, i),
             std_7      |-> RollingStd(col, 7, i)]])

RowHasNaN(r) ==
    \/ IsNaN(r.Price)
    \/ IsNaN(r.lag_1) \/ IsNaN(r.lag_7) \/ IsNaN(r.lag_14) \/ IsNaN(r.lag_30)
    \/ IsNaN(r.ma_7) \/ IsNaN(r.ma_14) \/ IsNaN(r.ma_30) \/ IsNaN(r.std_7)

\* a dropna that drops nothing
KeepAllRows(rows) == rows

\* DataFrame.dropna()
dropna(rows) == SelectSeq(rows, LAMBDA r : ~RowHasNaN(r))

\* make_features(ts_daily)
make_features(s) == dropna(FeatureRows(s))

\* ts.iloc[-n:]
LastRows(s, n) == IF Len(s) <= n THEN s ELSE SubSeq(s, Len(s) - n + 1, Len(s))

\* ts_feat.drop(columns=['Price']).iloc[-1:] : the last row, if any, without
\* its label
LatestX(feat) ==
    IF feat = <<>> THEN <<>>
    ELSE LET r == feat[Len(feat)]
         IN  <<[f \in (DOMAIN r) \ {"Price"} |-> r[f]]>>

(***************************************************************************)
(* The single-step oracle: the fitted model joblib loads.  It is external   *)
(* to the repository; the model draws it from a small family.  What         *)
(* model.predict does with a frame of no rows is the oracle's own affair:   *)
(* a scikit-learn regressor raises ValueError, a stub may answer anyway.    *)
(***************************************************************************)
Oracles ==
    { [kind |-> "const", c |-> RInt(0),  onEmpty |-> "ValueError"],
      [kind |-> "const", c |-> R(25, 2), onEmpty |-> "value"],
      [kind |-> "lag_7", c |-> R(1, 2),  onEmpty |-> "ValueError"] }

\* model.predict(X)[0]
OraclePredict(o, X) ==
    IF X = <<>>
    THEN IF o.onEmpty = "value" THEN [ok |-> TRUE, exc |-> "", v |-> o.c]
         ELSE [ok |-> FALSE, exc |-> o.onEmpty, v |-> NaN]
    ELSE IF o.kind = "const" THEN [ok |-> TRUE, exc |-> "", v |-> o.c]
    ELSE [ok |-> TRUE, exc |-> "", v |-> RAdd(X[1].lag_7, o.c)]

(***************************************************************************)
(* The forecast loop body, get_trend and the summary.                      *)
(***************************************************************************)
\* a next date that skips a day
NextDateSkipping(s) == s[Len(s)].Date + 2

\* ts.index[-1] + pd.Timedelta(days=1)
NextDate(s) == s[Len(s)].Date + 1

RECURSIVE IndexOfDate(_, _, _)
IndexOfDate(s, d, k) ==
    IF k > Len(s) THEN 0
    ELSE IF s[k].Date = d THEN k ELSE IndexOfDate(s, d, k + 1)

\* ts.loc[date] = price : overwrite the row of that date, else add a row
SetLoc(s, d, p) ==
    LET k == IndexOfDate(s, d, 1)
    IN  IF k = 0 THEN Append(s, [Date |-> d, Price |-> p])
        ELSE [s EXCEPT ![k] = [Date |-> d, Price |-> p]]

\* the assignment as it would act were ts a view of the caller's frame
WriteLocThroughView(d, s, crop, state, date, price) ==
    [df |-> Append(d, [Commodity |-> crop, State |-> state, Date |-> date,
                       Price |-> price]),
     ts |-> SetLoc(s, date, price)]

\* what the assignment ts.loc[next_date] = next_price writes: ts is the frame
\* make_daily_ts built from a copy, so the caller's df keeps its rows
WriteLoc(d, s, crop, state, date, price) ==
    [df |-> d, ts |-> SetLoc(s, date, price)]

\* one pass of the loop of forecast_prices over the working series s
LoopBody(o, s) ==
    LET recent == LastRows(s, WINDOW)
        feat   == make_features(recent)
        p      == OraclePredict(o, LatestX(feat))
    IN  [ok |-> p.ok, exc |-> p.exc, recent |-> recent, feat |-> feat,
         price |-> p.v, date |-> NextDate(s)]

\* the comparison chain of get_trend
TrendOf(pct) ==
    IF RLess(RInt(5), pct) THEN [text |-> "Strong Upward", emoji |-> "up"]
    ELSE IF RLess(RInt(2), pct) THEN [text |-> "Upward", emoji |-> "up"]
    ELSE IF RLess(pct, RInt(-5)) THEN [text |-> "Strong Downward", emoji |-> "down"]
    ELSE IF RLess(pct, RInt(-2)) THEN [text |-> "Downward", emoji |-> "down"]
    ELSE [text |-> "Stable", emoji |-> "flat"]

NoTrend == [text |-> "", emoji |-> ""]

\* get_trend(forecasts)
get_trend(f) ==
    IF f = <<>>
    THEN [ok |-> FALSE, exc |-> "IndexError", pct |-> NaN, trend |-> NoTrend]
    ELSE IF f[1].price[1] = 0
    THEN [ok |-> FALSE, exc |-> "ZeroDivisionError", pct |-> NaN, trend |-> NoTrend]
    ELSE LET delta == RSub(f[Len(f)].price, f[1].price)
             pct   == RMul(RDiv(delta, f[1].price), RInt(100))
         IN  [ok |-> TRUE, exc |-> "", pct |-> Round2(pct), trend |-> TrendOf(pct)]

\* the dictionary forecast_summary builds
SummaryOf(crop, state, days, f, t) ==
    [crop |-> crop, state |-> state, days |-> days,
     start_price |-> f[1].price, end_price |-> f[Len(f)].price,
     percent_change |-> t.pct, trend |-> t.trend.text,
     trend_emoji |-> t.trend.emoji, daily_forecast |-> f]

\* what the /api/forecast handler adds to the summary before returning it
ApiSummary(sm) ==
    [f \in DOMAIN sm \cup {"success", "unit"} |->
        IF f = "success" THEN TRUE
        ELSE IF f = "unit" THEN "rupees per quintal"
        ELSE sm[f]]

\* the dictionary the /api/predict handler returns
ApiPrice(crop, state, price) ==
    [success |-> TRUE, crop |-> crop, state |-> state, predicted_price |-> price,
     unit |-> "rupees per quintal", horizon |-> "next day"]

\* a guard that lets a horizon of 0 through
HorizonRejectedBelowZero(days) == days < 0 \/ days > MAX_HORIZON

\* the guard of the /api/forecast handler
HorizonRejected(days) == days < 1 \/ days > MAX_HORIZON

(***************************************************************************)
(* Inputs.                                                                 *)
(***************************************************************************)
Row(c, s, d, p) == [Commodity |-> c, State |-> s, Date |-> d, Price |-> RInt(p)]

ObsDates == {1, 21, 61}
ObsPrices == {10, 20}
ObsSets == {o \in SUBSET (ObsDates \X ObsPrices) : Cardinality(o) <= MaxObs}

\* the observations of a set as rows, latest date first
RECURSIVE RowsOf(_)
RowsOf(o) ==
    IF o = {} THEN <<>>
    ELSE LET m == CHOOSE x \in o :
                    \A y \in o : y[1] < x[1] \/ (y[1] = x[1] /\ y[2] <= x[2])
         IN  <<Row("Potato", "Punjab", m[1], m[2])>> \o RowsOf(o \ {m})

\* rows of other pairs, around which the rows of (Potato, Punjab) are placed
OtherRows ==
    <<Row("Onion", "Kerala", 39, 19), Row("Potato", "Kerala", 30, 50),
      Row("Onion", "Kerala", 4, 12)>>

Crops == {"Potato", "Onion"}
States == {"Punjab", "Kerala"}
\* the pairs with a file under models/
ModelPairs == {<<"Potato", "Punjab">>, <<"Onion", "Kerala">>, <<"Onion", "Punjab">>}

DirectDays == -1..MaxDays
ApiDays == DirectDays \cup {MAX_HORIZON + 1}

\* prices, in hundredths, of the forecasts get_trend is called with
TrendCents == {0, 949, 950, 979, 980, 1000, 1019, 1020, 1050, 1051, 1070}
TrendInputs ==
    {<<>>}
    \cup {<<[date |-> 1, price |-> R(a, 100)]>> : a \in TrendCents}
    \cup {<<[date |-> 1, price |-> R(a, 100)], [date |-> 2, price |-> R(b, 100)]>> :
            a \in TrendCents, b \in TrendCents}

(***************************************************************************)
(* State.                                                                  *)
(***************************************************************************)
VARIABLES
    df,         \* the dataset app.py loads at startup and hands to every call
    df0,        \* the dataset as loaded (never assigned after Init)
    models,     \* the fitted model of each pair with a file under models/
    pc,         \* position of the call in progress
    op,         \* the operation called
    crop, state, days,  \* its arguments
    model,      \* the oracle load_model returned
    ts,         \* the working series of the call
    ts_recent,  \* the window of it make_features was given last
    ts_feat,    \* the frame make_features returned last
    forecasts,  \* the list forecast_prices builds
    queries,    \* calls of model.predict made by the call
    result      \* what the call returned or raised

vars == <<df, df0, models, pc, op, crop, state, days, model, ts, ts_recent,
          ts_feat, forecasts, queries, result>>

ApiOps == {"api_predict", "api_forecast"}
PredictOps == {"api_predict", "predict_next_day_price"}
ForecastOps == {"api_forecast", "forecast_summary", "forecast_prices"}

NoModel == [kind |-> "none", c |-> NaN, onEmpty |-> ""]
NoResult == [kind |-> "none"]

\* an exception leaving the call: the handlers of app.py turn it into an HTTP
\* error (404 for FileNotFoundError, 400 otherwise), a direct caller sees it
Raised(o, exc) ==
    IF o \in ApiOps
    THEN [kind |-> "http", status |-> IF exc = "FileNotFoundError" THEN 404 ELSE 400,
          exc |-> exc]
    ELSE [kind |-> "raise", exc |-> exc]

Init ==
    /\ \E o \in ObsSets :
          df = SubSeq(OtherRows, 1, 2) \o RowsOf(o) \o SubSeq(OtherRows, 3, 3)
    /\ df0 = df
    /\ \E o \in Oracles : models = [p \in ModelPairs |-> o]
    /\ pc = "idle"
    /\ op = "none"
    /\ crop = ""
    /\ state = ""
    /\ days = 0
    /\ model = NoModel
    /\ ts = <<>>
    /\ ts_recent = <<>>
    /\ ts_feat = <<>>
    /\ forecasts = <<>>
    /\ queries = 0
    /\ result = NoResult

\* a call enters one of the functions that load a model first
Enter(o, c, s, d) ==
    /\ pc = "idle"
    /\ pc' = "load"
    /\ op' = o
    /\ crop' = c
    /\ state' = s
    /\ days' = d
    /\ UNCHANGED <<df, df0, models, model, ts, ts_recent, ts_feat, forecasts,
                   queries, result>>

\* the call ends by raising exc
Fail(exc) ==
    /\ pc' = "done"
    /\ result' = Raised(op, exc)

\* predict_next_day_price(df, crop, state)
CallPredictNextDay == \E c \in Crops, s \in States :
    Enter("predict_next_day_price", c, s, 1)

\* GET /api/predict
CallApiPredict == \E c \in Crops, s \in States :
    Enter("api_predict", c, s, 1)

\* forecast_prices(df, crop, state, days)
CallForecastPrices == \E c \in Crops, s \in States, d \in DirectDays :
    Enter("forecast_prices", c, s, d)

\* forecast_summary(df, crop, state, days)
CallForecastSummary == \E c \in Crops, s \in States, d \in DirectDays :
    Enter("forecast_summary", c, s, d)

\* GET /api/forecast: the horizon check, then forecast_summary
CallApiForecast == \E c \in Crops, s \in States, d \in ApiDays :
    IF HorizonRejected(d)
    THEN /\ pc = "idle"
         /\ pc' = "done"
         /\ op' = "api_forecast"
         /\ crop' = c
         /\ state' = s
         /\ days' = d
         /\ result' = [kind |-> "http", status |-> 400, exc |-> "HTTPException"]
         /\ UNCHANGED <<df, df0, models, model, ts, ts_recent, ts_feat, forecasts,
                        queries>>
    ELSE Enter("api_forecast", c, s, d)

\* get_trend(forecasts) called on its own
CallGetTrend == \E f \in TrendInputs :
    /\ pc = "idle"
    /\ pc' = "done"
    /\ op' = "get_trend"
    /\ forecasts' = f
    /\ \E t \in {get_trend(f)} :
          result' = IF t.ok THEN [kind |-> "trend", pct |-> t.pct, trend |-> t.trend]
                    ELSE Raised("get_trend", t.exc)
    /\ UNCHANGED <<df, df0, models, crop, state, days, model, ts, ts_recent,
                   ts_feat, queries>>

\* load_model(crop, state)
LoadModel ==
    /\ pc = "load"
    /\ IF <<crop, state>> \in DOMAIN models
       THEN /\ model' = models[<<crop, state>>]
            /\ pc' = "normalize"
            /\ UNCHANGED result
       ELSE /\ Fail("FileNotFoundError")
            /\ UNCHANGED model
    /\ UNCHANGED <<df, df0, models, op, crop, state, days, ts, ts_recent, ts_feat,
                   forecasts, queries>>

\* make_daily_ts(df, crop, state); in predict_next_day_price it runs inside
\* get_recent_ts, which wants 60 days and keeps the last 60
Normalize ==
    /\ pc = "normalize"
    /\ \E r \in {make_daily_ts(df, crop, state)} :
           IF ~r.ok
           THEN Fail(r.exc) /\ UNCHANGED <<ts, ts_recent>>
           ELSE IF op \in PredictOps
           THEN /\ ts' = r.ts
                /\ IF Len(r.ts) < RECENT_DAYS
                   THEN Fail("ValueError") /\ UNCHANGED ts_recent
                   ELSE /\ ts_recent' = LastRows(r.ts, RECENT_DAYS)
                        /\ pc' = "predict"
                        /\ UNCHANGED result
           ELSE /\ ts' = r.ts
                /\ pc' = "loop"
                /\ UNCHANGED <<ts_recent, result>>
    /\ UNCHANGED <<df, df0, models, op, crop, state, days, model, ts_feat, forecasts,
                   queries>>

\* prepare_latest_features, model.predict and round in predict_next_day_price
PredictStep ==
    /\ pc = "predict"
    /\ \E feat \in {make_features(ts_recent)} :
       \E p \in {OraclePredict(model, LatestX(feat))} :
           /\ ts_feat' = feat
           /\ queries' = queries + 1
           /\ pc' = "done"
           /\ result' = IF ~p.ok THEN Raised(op, p.exc)
                        ELSE IF op = "api_predict"
                        THEN [kind |-> "json", body |-> ApiPrice(crop, state, Round2(p.v))]
                        ELSE [kind |-> "price", price |-> Round2(p.v)]
    /\ UNCHANGED <<df, df0, models, op, crop, state, days, model, ts, ts_recent,
                   forecasts>>

\* one iteration of "for _ in range(days)" in forecast_prices
LoopIter ==
    /\ pc = "loop"
    /\ Len(forecasts) < days
    /\ \E b \in {LoopBody(model, ts)} :
           /\ ts_recent' = b.recent
           /\ ts_feat' = b.feat
           /\ queries' = queries + 1
           /\ IF b.ok
              THEN \E w \in {WriteLoc(df, ts, crop, state, b.date, b.price)} :
                       /\ ts' = w.ts
                       /\ df' = w.df
                       /\ forecasts' = Append(forecasts,
                                          [date |-> b.date, price |-> Round2(b.price)])
                       /\ UNCHANGED <<pc, result>>
              ELSE /\ Fail(b.exc)
                   /\ UNCHANGED <<df, ts, forecasts>>
    /\ UNCHANGED <<df0, models, op, crop, state, days, model>>

\* range(days) is exhausted: forecast_prices returns its list
LoopExit ==
    /\ pc = "loop"
    /\ Len(forecasts) >= days
    /\ IF op = "forecast_prices"
       THEN /\ pc' = "done"
            /\ result' = [kind |-> "forecast", forecast |-> forecasts]
       ELSE /\ pc' = "trend"
            /\ UNCHANGED result
    /\ UNCHANGED <<df, df0, models, op, crop, state, days, model, ts, ts_recent,
                   ts_feat, forecasts, queries>>

\* the rest of forecast_summary: get_trend and the summary dictionary
Summarize ==
    /\ pc = "trend"
    /\ \E t \in {get_trend(forecasts)} :
           IF t.ok
           THEN /\ pc' = "done"
                /\ result' = [kind |-> "summary",
                              summary |->
                                 IF op = "api_forecast"
                                 THEN ApiSummary(SummaryOf(crop, state, days, forecasts, t))
                                 ELSE SummaryOf(crop, state, days, forecasts, t)]
           ELSE Fail(t.exc)
    /\ UNCHANGED <<df, df0, models, op, crop, state, days, model, ts, ts_recent,
                   ts_feat, forecasts, queries>>

\* the call is over; its locals are gone
Return ==
    /\ pc = "done"
    /\ pc' = "idle"
    /\ op' = "none"
    /\ crop' = ""
    /\ state' = ""
    /\ days' = 0
    /\ model' = NoModel
    /\ ts' = <<>>
    /\ ts_recent' = <<>>
    /\ ts_feat' = <<>>
    /\ forecasts' = <<>>
    /\ queries' = 0
    /\ result' = NoResult
    /\ UNCHANGED <<df, df0, models>>

Next ==
    \/ CallPredictNextDay
    \/ CallApiPredict
    \/ CallForecastPrices
    \/ CallForecastSummary
    \/ CallApiForecast
    \/ CallGetTrend
    \/ LoadModel
    \/ Normalize
    \/ PredictStep
    \/ LoopIter
    \/ LoopExit
    \/ Summarize
    \/ Return

Spec == Init /\ [][Next]_vars

(***************************************************************************)
(* forecast_prices(df, crop, state, 1)[0][1] as one expression: the outcome *)
(* of LoadModel, Normalize, one LoopIter and LoopExit.                      *)
(***************************************************************************)
ForecastFirstPrice(d, c, s) ==
    IF <<c, s>> \notin DOMAIN models THEN [ok |-> FALSE, price |-> NaN]
    ELSE LET r == make_daily_ts(d, c, s)
         IN  IF ~r.ok THEN [ok |-> FALSE, price |-> NaN]
             ELSE LET b == LoopBody(models[<<c, s>>], r.ts)
                  IN  IF ~b.ok THEN [ok |-> FALSE, price |-> NaN]
                      ELSE [ok |-> TRUE, price |-> Round2(b.price)]

(***************************************************************************)
(* Vocabulary of the properties: the raw observations of the pair the call *)
(* in progress names, read from the dataset.                               *)
(***************************************************************************)
ObsIdx == {k \in 1..Len(df) : df[k].Commodity = crop /\ df[k].State = state}
ObsDateSet == {df[k].Date : k \in ObsIdx}
HasData == ObsIdx # {}
MinDate == CHOOSE d \in ObsDateSet : \A e \in ObsDateSet : d <= e
MaxDate == CHOOSE d \in ObsDateSet : \A e \in ObsDateSet : e <= d
SpanDays == MaxDate - MinDate + 1

RECURSIVE SumPrices(_)
SumPrices(idx) ==
    IF idx = {} THEN RInt(0)
    ELSE LET k == CHOOSE x \in idx : TRUE
         IN  RAdd(df[k].Price, SumPrices(idx \ {k}))

\* the arithmetic mean of the observations of date d
ObsMean(d) ==
    LET idx == {k \in ObsIdx : df[k].Date = d}
    IN  RDiv(SumPrices(idx), RInt(Cardinality(idx)))

\* the working series is the one make_daily_ts just returned
JustNormalized == (pc = "loop" /\ forecasts = <<>>) \/ pc = "predict"

\* the call is forecast_prices (alone or under forecast_summary) past make_daily_ts
InForecast == op \in ForecastOps /\ pc \in {"loop", "trend", "done"} /\ ts # <<>>

Defined(x) == x[2] # 0

(***************************************************************************)
(* C1: for a daily series of at least 31 days and a horizon of at least 1, *)
(* forecast_prices returns exactly `days` points, the k-th dated last      *)
(* date + k; after every iteration the working series is one day longer    *)
(* and still holds each calendar day once, in order.                       *)
(***************************************************************************)
Thm_C1 ==
    (InForecast /\ SpanDays >= 31) =>
        /\ Len(ts) = SpanDays + Len(forecasts)
        /\ \A k \in 1..Len(ts) : ts[k].Date = MinDate + k - 1
        /\ \A k \in 1..Len(forecasts) : forecasts[k].date = MaxDate + k
        /\ Len(forecasts) <= (IF days > 0 THEN days ELSE 0)
        /\ (pc \in {"trend", "done"} /\ days >= 1) => Len(forecasts) = days
        /\ (pc = "done" /\ days >= 1 /\ op = "forecast_prices") =>
              (result.kind = "forecast" /\ result.forecast = forecasts)

Wit_C1 ==
    /\ pc = "done"
    /\ op = "forecast_prices"
    /\ days = 2
    /\ result.kind = "forecast"
    /\ Len(result.forecast) = 2
    /\ SpanDays >= 31

(***************************************************************************)
(* C2: with fewer than 31 days of history a forecast fails before the loop *)
(* is entered: the oracle is never queried, no point is produced and the   *)
(* call never returns a forecast.                                          *)
(***************************************************************************)
Cex_C2 ==
    (InForecast /\ SpanDays < 31 /\ days >= 1) =>
        /\ queries = 0
        /\ forecasts = <<>>
        /\ pc # "trend"
        /\ pc = "done" => result.kind \in {"raise", "http"}

(***************************************************************************)
(* C3: predict_next_day_price has the outcome of forecast_prices with      *)
(* days = 1 followed by [0][1]: the same price, or both fail.              *)
(***************************************************************************)
Cex_C3 ==
    (pc = "done" /\ op = "predict_next_day_price") =>
        LET f == ForecastFirstPrice(df, crop, state)
        IN  IF result.kind = "price" THEN f.ok /\ f.price = result.price
            ELSE ~f.ok

(***************************************************************************)
(* C4: for a non-empty set of observations make_daily_ts returns one row   *)
(* per calendar day from the first to the last observed date, in order,    *)
(* each with a price; for an empty set it raises instead.                  *)
(***************************************************************************)
Thm_C4 ==
    /\ JustNormalized =>
          /\ HasData
          /\ Len(ts) = SpanDays
          /\ \A k \in 1..Len(ts) : ts[k].Date = MinDate + k - 1 /\ Defined(ts[k].Price)
    /\ (pc = "done" /\ op \in ForecastOps \cup PredictOps /\ model # NoModel /\ ~HasData) =>
          /\ ts = <<>>
          /\ result.kind \in {"raise", "http"}
          /\ result.exc = "ValueError"

Wit_C4 ==
    /\ pc = "loop"
    /\ forecasts = <<>>
    /\ Cardinality(ObsDateSet) = 3
    /\ Len(ts) = 61

(***************************************************************************)
(* C5: the label get_trend returns is the one the strict thresholds give   *)
(* for the percent change it returns (the value rounded to 2 places).      *)
(***************************************************************************)
Cex_C5 ==
    /\ (pc = "done" /\ result.kind = "trend") => result.trend = TrendOf(result.pct)
    /\ (pc = "done" /\ result.kind = "summary") =>
          result.summary.trend = TrendOf(result.summary.percent_change).text

(***************************************************************************)
(* C6: a first forecast price of 0 does not make get_trend or              *)
(* forecast_summary fail: a trend summary is still returned.               *)
(***************************************************************************)
Cex_C6 ==
    (/\ pc = "done"
     /\ op \in {"get_trend", "forecast_summary", "api_forecast"}
     /\ forecasts # <<>>
     /\ forecasts[1].price[1] = 0) =>
        result.kind \in {"trend", "summary"}

(***************************************************************************)
(* C7, as claimed: a horizon below 1 or above 30 is rejected before any    *)
(* computation, by /api/forecast and by forecast_summary called directly.  *)
(***************************************************************************)
Cex_C7 ==
    (op \in {"api_forecast", "forecast_summary"} /\ (days < 1 \/ days > 30)) =>
        /\ model = NoModel
        /\ ts = <<>>
        /\ queries = 0

(***************************************************************************)
(* C7, amended: the /api/forecast handler rejects a horizon below 1 or     *)
(* above 30 with HTTP 400 before any computation: no oracle is loaded, no  *)
(* series is normalized, no prediction is made.                            *)
(***************************************************************************)
Thm_C7 ==
    (op = "api_forecast" /\ (days < 1 \/ days > 30)) =>
        /\ pc = "done"
        /\ result.kind = "http"
        /\ result.status = 400
        /\ model = NoModel
        /\ ts = <<>>
        /\ ts_recent = <<>>
        /\ ts_feat = <<>>
        /\ forecasts = <<>>
        /\ queries = 0

Wit_C7 ==
    /\ pc = "done"
    /\ op = "api_forecast"
    /\ days = 31
    /\ result.kind = "http"
    /\ result.status = 400

(***************************************************************************)
(* C8: the calls leave the caller's dataset as it was loaded: predictions  *)
(* go to the working series only.                                          *)
(***************************************************************************)
Thm_C8 == df = df0

Wit_C8 ==
    /\ pc = "done"
    /\ op = "forecast_summary"
    /\ Len(forecasts) = 2
    /\ Len(ts) = SpanDays + 2
    /\ ts[Len(ts)].Date \notin ObsDateSet

(***************************************************************************)
(* C9: in the series of make_daily_ts a date with observations holds their *)
(* arithmetic mean, and a day d between two neighbouring observed dates    *)
(* d0 < d < d1 holds p0 + (p1 - p0) * (d - d0) / (d1 - d0).                *)
(***************************************************************************)
Thm_C9 ==
    JustNormalized =>
        \A k \in 1..Len(ts) :
            LET d == ts[k].Date
            IN  IF d \in ObsDateSet THEN ts[k].Price = ObsMean(d)
                ELSE LET d0 == CHOOSE x \in ObsDateSet :
                                  x < d /\ \A y \in ObsDateSet : y < d => y <= x
                         d1 == CHOOSE x \in ObsDateSet :
                                  x > d /\ \A y \in ObsDateSet : y > d => y >= x
                         p0 == ObsMean(d0)
                         p1 == ObsMean(d1)
                     IN  ts[k].Price =
                            RAdd(p0, RDiv(RMul(RSub(p1, p0), RInt(d - d0)),
                                          RInt(d1 - d0)))

Wit_C9 ==
    /\ pc = "loop"
    /\ forecasts = <<>>
    /\ Len(ts) = 61
    /\ ts[1].Price = <<15, 1>>
    /\ ts[31].Price = <<35, 2>>
    /\ ts[61].Price = <<20, 1>>

(***************************************************************************)
(* C10: for a window of n days make_features returns max(0, n - 30) rows,  *)
(* those of day 31 onward in order, each with every lag and rolling        *)
(* feature defined; the lags are the prices 1, 7, 14 and 30 days earlier.  *)
(***************************************************************************)
Thm_C10 ==
    pc # "predict" =>
        LET n == Len(ts_recent)
        IN  /\ Len(ts_feat) = (IF n > 30 THEN n - 30 ELSE 0)
            /\ \A k \in 1..Len(ts_feat) :
                  LET r == ts_feat[k]
                  IN  /\ r.Date = ts_recent[30 + k].Date
                      /\ r.Price = ts_recent[30 + k].Price
                      /\ r.lag_1 = ts_recent[30 + k - 1].Price
                      /\ r.lag_7 = ts_recent[30 + k - 7].Price
                      /\ r.lag_14 = ts_recent[30 + k - 14].Price
                      /\ r.lag_30 = ts_recent[k].Price
                      /\ Defined(r.lag_1) /\ Defined(r.lag_7)
                      /\ Defined(r.lag_14) /\ Defined(r.lag_30)
                      /\ Defined(r.ma_7) /\ Defined(r.ma_14)
                      /\ Defined(r.ma_30) /\ Defined(r.std_7)

Wit_C10 ==
    /\ pc = "loop"
    /\ Len(ts_recent) = 41
    /\ Len(ts_feat) = 11

=============================================================================
